---- MODULE Spec2Model ----
(***************************************************************************)
(* A model of the Binance price monitor (src/binance_monitor.py):          *)
(*   PriceHistory        the per-symbol rolling price history, its trim    *)
(*                       and the change computation over time windows;     *)
(*   NotificationManager the alert sink;                                   *)
(*   BinanceMonitor      the polling loop and the alert decision.          *)
(*                                                                         *)
(* Time is counted in whole seconds.  datetime.utcnow() and time.time()    *)
(* read the same wall clock, the variable now.  Prices are floats in the   *)
(* code; the model uses the floats that hold whole numbers.  A percentage  *)
(* rounded to two decimals is held as an integer number of hundredths of   *)
(* a percent (10.0 % is 1000).                                             *)
(***************************************************************************)
EXTENDS Integers, Sequences, FiniteSets, TLC

VARIABLES
    history,          \* PriceHistory.history: symbol -> list of samples
    file,             \* the contents of Config.DATA_FILE on disk
    last_alert_time,  \* BinanceMonitor.last_alert_time: alert_key -> time
    now,              \* the wall clock, seconds
    pc,               \* position of the running code
    idx,              \* monitor_prices: index of the symbol being processed
    price,            \* monitor_prices: the price fetched for that symbol
    price_changes,    \* result of the last get_price_changes call
    alerts,           \* the send_alert calls of the last check_for_alerts
    lastFired,        \* per alert_key, the time of the latest send_alert call
    lastCall,         \* the last PriceHistory / check_for_alerts call made
    TELEGRAM_ENABLED  \* Config.TELEGRAM_ENABLED of this run

vars == << history, file, last_alert_time, now, pc, idx, price, price_changes,
           alerts, lastFired, lastCall, TELEGRAM_ENABLED >>

\* An optional value: None is the empty tuple, a present value v is << v >>.
None == << >>
Some(v) == << v >>

-----------------------------------------------------------------------------
(* Configuration (src/config.py) *)

\* The first symbols of Config.SYMBOLS, in order.
SYMBOLS == << "BTCUSDT", "ETHUSDT" >>

\* The keys a history holds.
Keys == { SYMBOLS[i] : i \in 1..Len(SYMBOLS) }

MAX_HISTORY_HOURS == 24
CHECK_INTERVAL == 60
PRICE_CHANGE_THRESHOLD == 3

\* binance_monitor.py reads Config.TIME_WINDOWS as a mapping from a window in
\* minutes to its threshold in percent (.items() and .get(window)).  The
\* first two windows config.py lists, each with the threshold it states.
TIME_WINDOWS == [w \in {5, 15} |-> PRICE_CHANGE_THRESHOLD]

\* BinanceMonitor.__init__: self.alert_cooldown = 5 * 60 seconds
alert_cooldown == 5 * 60

\* check_for_alerts: changes above 1000 % are taken as bad ticks
SANITY_CEILING == 1000

\* monitor_prices: time.sleep(30) after an error in a cycle
ERROR_BACKOFF == 30

-----------------------------------------------------------------------------
(* Bounds of the model *)

\* The clock reading when the process starts, seconds since the epoch.
StartTime == 100000
\* No more samples than this are appended to one series.
MaxLen == 2
\* Longest series a persisted file holds for one key.
MaxLoaded == 1

-----------------------------------------------------------------------------
(* datetime and float conversions *)

SecondsPerDay == 24 * 3600

\* datetime.isoformat(): "<date>T<time of day>", held as << day, second of day >>
isoformat(t) == << t \div SecondsPerDay, t % SecondsPerDay >>

\* datetime.fromisoformat(): the instant an ISO string denotes
fromisoformat(s) == s[1] * SecondsPerDay + s[2]

\* datetime.fromisoformat() raises on a value that is not an ISO string,
\* such as the null of a file that was not written by save_history.
fromisoformat_raises(s) == s = None

timedelta_hours(h) == h * 3600
timedelta_minutes(m) == m * 60

\* float(price) of a price that already is a number
float(p) == p

Abs(x) == IF x < 0 THEN -x ELSE x

\* round(n / d, 0) as Python 3 rounds: to nearest, ties to the even neighbour.
RoundHalfEven(n, d) ==
    LET nn == IF d < 0 THEN -n ELSE n
        dd == Abs(d)
        q  == nn \div dd
        r  == nn % dd
    IN  IF 2 * r < dd THEN q
        ELSE IF 2 * r > dd THEN q + 1
        ELSE IF q % 2 = 0 THEN q ELSE q + 1

\* Python's / raises ZeroDivisionError on a zero divisor.
DivisionRaises(start_price) == start_price = 0

\* round(((current_price - start_price) / start_price) * 100, 2), in
\* hundredths of a percent (the division does not raise).
PriceChangePercent(current_price, start_price) ==
    RoundHalfEven((current_price - start_price) * 10000, start_price)

-----------------------------------------------------------------------------
(* PriceHistory *)

EmptyDict == [k \in {} |-> << >>]

Series(h, symbol) == IF symbol \in DOMAIN h THEN h[symbol] ELSE << >>

\* json.dump(self.history, f): an object with one member per key
json_dump(h) == [kind |-> "json", members |-> { << k, h[k] >> : k \in DOMAIN h }]

MissingFile == [kind |-> "missing", members |-> {}]
CorruptFile == [kind |-> "corrupt", members |-> {}]

\* json.load(f): the mapping the members of the object denote
json_load(f) ==
    [k \in { m[1] : m \in f.members } |->
        (CHOOSE m \in f.members : m[1] = k)[2]]

load_history_Empty(f) == EmptyDict

\* load_history: a missing file, or one that does not parse, gives {}
load_history(f) == IF f.kind = "json" THEN json_load(f) ELSE EmptyDict

\* save_history: what the file can hold afterwards.  The write succeeds, or
\* open() fails and the file is as before, or the write stops after open()
\* truncated the file; the exception is logged and swallowed.
save_history(h, f) == { json_dump(h), f, CorruptFile }

SaveResult_Stale(h, f, ok) == { f }

save_raises_OnFailure(ok) == ~ok

\* save_history: "except Exception as e: logger.error(...)", nothing is
\* raised to the caller whether the write succeeded (ok) or not
save_raises(ok) == FALSE

\* save_history, by whether the write succeeds (ok) or an exception is caught
SaveResult(h, f, ok) == IF ok THEN { json_dump(h) } ELSE { f, CorruptFile }

InvalidPrice_ZeroAccepted(p) == p = None \/ p[1] < 0

\* add_price: "if price is None or price <= 0: return"
InvalidPrice(p) == p = None \/ p[1] <= 0

Kept_All(entry, cutoff_time) == TRUE
Kept_Inverted(entry, cutoff_time) == fromisoformat(entry.timestamp) < cutoff_time

\* cleanup_old_data: the test an entry passes to be kept
Kept(entry, cutoff_time) == fromisoformat(entry.timestamp) > cutoff_time

cleanup_old_data_AllKeys(h, symbol, current_time) ==
    LET cutoff_time == current_time - timedelta_hours(MAX_HISTORY_HOURS)
        keep(entry) == Kept(entry, cutoff_time)
    IN  [k \in DOMAIN h |-> SelectSeq(h[k], keep)]

\* cleanup_old_data(symbol, current_time)
cleanup_old_data(h, symbol, current_time) ==
    IF symbol \notin DOMAIN h THEN h
    ELSE LET cutoff_time == current_time - timedelta_hours(MAX_HISTORY_HOURS)
             keep(entry) == Kept(entry, cutoff_time)
         IN  [h EXCEPT ![symbol] = SelectSeq(@, keep)]

\* add_price up to the append: the history when cleanup_old_data is called
appended(h, symbol, p, t) ==
    LET h1 == IF symbol \in DOMAIN h THEN h ELSE (symbol :> << >>) @@ h
    IN  [h1 EXCEPT ![symbol] =
            Append(@, [timestamp |-> isoformat(t), price |-> float(p)])]

\* cleanup_old_data parses the timestamp of every entry of the series
cleanup_raises(h, symbol) ==
    \E i \in 1..Len(Series(h, symbol)) :
        fromisoformat_raises(h[symbol][i].timestamp)

add_price_Prepend(h, symbol, p, t) ==
    LET timestamp == isoformat(t)
        h1 == IF symbol \in DOMAIN h THEN h ELSE (symbol :> << >>) @@ h
        h2 == [h1 EXCEPT ![symbol] =
                  << [timestamp |-> timestamp, price |-> float(p)] >> \o @]
    IN  cleanup_old_data(h2, symbol, t)

\* add_price for a valid price, read at clock value t: the history after the
\* append and the trim.
add_price(h, symbol, p, t) ==
    LET timestamp == isoformat(t)
        h1 == IF symbol \in DOMAIN h THEN h ELSE (symbol :> << >>) @@ h
        h2 == [h1 EXCEPT ![symbol] =
                  Append(@, [timestamp |-> timestamp, price |-> float(p)])]
    IN  cleanup_old_data(h2, symbol, t)

InWindow_Always(entry_time, window_start) == TRUE
InWindow_Strict(entry_time, window_start) == entry_time > window_start

\* get_price_changes: "if entry_time >= window_start"
InWindow(entry_time, window_start) == entry_time >= window_start

SkipStart_Never(start_price) == FALSE
SkipStart_Negative(start_price) == start_price < 0

\* get_price_changes: "if start_price <= 0: continue"
SkipStart(start_price) == start_price <= 0

RECURSIVE FindStart_BreakOnSkip(_, _, _)
FindStart_BreakOnSkip(s, i, window_start) ==
    IF i > Len(s) THEN 0
    ELSE IF InWindow(fromisoformat(s[i].timestamp), window_start)
         THEN IF SkipStart(s[i].price) THEN 0 ELSE i
         ELSE FindStart_BreakOnSkip(s, i + 1, window_start)

\* The loop "for entry in self.history[symbol]" from entry i on: the index of
\* the entry at which it breaks, 0 when it ends without a break.
RECURSIVE FindStart(_, _, _)
FindStart(s, i, window_start) ==
    IF i > Len(s) THEN 0
    ELSE IF InWindow(fromisoformat(s[i].timestamp), window_start)
              /\ ~SkipStart(s[i].price)
         THEN i
         ELSE FindStart(s, i + 1, window_start)

\* The body of "for window, _ in time_windows_dict.items()" for one window.
WindowChange(s, window) ==
    LET current_price == s[Len(s)].price
        current_time  == fromisoformat(s[Len(s)].timestamp)
        window_start  == current_time - timedelta_minutes(window)
        i             == FindStart(s, 1, window_start)
    IN  IF i = 0
        THEN [raised |-> FALSE, start_price |-> None,
              current_price |-> current_price, change_percent |-> 0]
        ELSE IF DivisionRaises(s[i].price)
        THEN [raised |-> TRUE, start_price |-> Some(s[i].price),
              current_price |-> current_price, change_percent |-> 0]
        ELSE [raised |-> FALSE, start_price |-> Some(s[i].price),
              current_price |-> current_price,
              change_percent |-> PriceChangePercent(current_price, s[i].price)]

ChangeData(r) ==
    [start_price |-> r.start_price, current_price |-> r.current_price,
     change_percent |-> r.change_percent]

\* get_price_changes(symbol, time_windows_dict): the mapping returned, or
\* raised when the computation for a window raises.
get_price_changes(h, symbol, time_windows_dict) ==
    IF symbol \notin DOMAIN h \/ h[symbol] = << >>
    THEN [raised |-> FALSE, value |-> EmptyDict]
    ELSE LET r == [w \in DOMAIN time_windows_dict |-> WindowChange(h[symbol], w)]
         IN  IF \E w \in DOMAIN r : r[w].raised
             THEN [raised |-> TRUE, value |-> EmptyDict]
             ELSE [raised |-> FALSE,
                   value |-> [w \in DOMAIN r |-> ChangeData(r[w])]]

-----------------------------------------------------------------------------
(* NotificationManager and BinanceMonitor.check_for_alerts *)

\* A percentage in the unit of change_percent, hundredths of a percent.
Percent(x) == x * 100

alert_key_SymbolOnly(symbol, window) == symbol

\* alert_key = f"{symbol}_{window}"
alert_key(symbol, window) == symbol \o "_" \o ToString(window)

\* self.last_alert_time.get(alert_key, 0)
last_alert(lat, key) == IF key \in DOMAIN lat THEN lat[key] ELSE 0

\* "start_price is None or start_price <= 0 or current_price <= 0"
InvalidData(change_data) ==
    \/ change_data.start_price = None
    \/ change_data.start_price[1] <= 0
    \/ change_data.current_price <= 0

\* "if abs_change > 1000: continue"
Unreasonable(abs_change) == abs_change > Percent(SANITY_CEILING)

ExceedsThreshold_Strict(abs_change, threshold) == abs_change > Percent(threshold)

\* "if abs_change >= threshold"
ExceedsThreshold(abs_change, threshold) == abs_change >= Percent(threshold)

CooldownElapsed_Always(current_time, last) == TRUE

\* "if current_time - last_alert > self.alert_cooldown"
CooldownElapsed(current_time, last) == current_time - last > alert_cooldown

\* The body of the loop of check_for_alerts for one window, up to the call
\* of send_alert: whether the alert is sent.
ShouldAlert(symbol, window, change_data, lat, current_time) ==
    /\ window \in DOMAIN TIME_WINDOWS
    /\ ~InvalidData(change_data)
    /\ ~Unreasonable(Abs(change_data.change_percent))
    /\ ExceedsThreshold(Abs(change_data.change_percent), TIME_WINDOWS[window])
    /\ CooldownElapsed(current_time, last_alert(lat, alert_key(symbol, window)))

\* send_alert and send_telegram: nothing is sent when Telegram is disabled;
\* otherwise the message is posted, and a failure (a status other than 200,
\* an exception) is logged and not raised.
SendOutcomes(enabled) ==
    IF enabled THEN { "delivered", "failed" } ELSE { "disabled" }

RecordsCooldown_OnSuccess(outcome) == outcome = "delivered"

\* "self.last_alert_time[alert_key] = current_time" follows send_alert
\* whatever send_alert did.
RecordsCooldown(outcome) == TRUE

\* A mapping with the entries of m, and time t under every key of K.
Stamp(m, K, t) == [k \in DOMAIN m \cup K |-> IF k \in K THEN t ELSE m[k]]

-----------------------------------------------------------------------------
(* Inputs *)

\* The instants at which the clock is read when PriceHistory is used on its
\* own: the start, one check interval later, and the retention horizon
\* after each of the two, to the second.
ClockOffsets == {0, CHECK_INTERVAL,
                 timedelta_hours(MAX_HISTORY_HOURS),
                 timedelta_hours(MAX_HISTORY_HOURS) + CHECK_INTERVAL}
Instants == { StartTime + o : o \in ClockOffsets }

\* The instants at which the clock is read while the monitor runs: the
\* start, one check interval later, the cooldown after that to the second
\* and one second more.
MonitorOffsets == {0, CHECK_INTERVAL, CHECK_INTERVAL + alert_cooldown,
                   CHECK_INTERVAL + alert_cooldown + 1}
MonitorInstants == { StartTime + o : o \in MonitorOffsets }

\* Prices given to add_price: missing, non-positive, and valid ones.
PriceInputs == { None, Some(-1), Some(0), Some(110) }

\* Samples of a persisted file: written a retention horizon or a check
\* interval before the start; a file can hold a non-positive price.
LoadedTimes == { StartTime - timedelta_hours(MAX_HISTORY_HOURS),
                 StartTime - CHECK_INTERVAL }
LoadedPrices == { 100 }
LoadedSamples ==
    { [timestamp |-> isoformat(t), price |-> p] :
        t \in LoadedTimes, p \in LoadedPrices }

RECURSIVE SeqsUpTo(_, _)
SeqsUpTo(S, n) ==
    IF n = 0 THEN { << >> }
    ELSE LET shorter == SeqsUpTo(S, n - 1)
         IN  shorter \cup { Append(q, x) : q \in shorter, x \in S }

LoadedSeries == SeqsUpTo(LoadedSamples, MaxLoaded)

LoadedHistories ==
    UNION { [K -> LoadedSeries] : K \in SUBSET Keys }

LoadableFiles ==
    { MissingFile, CorruptFile } \cup { json_dump(h) : h \in LoadedHistories }

NoCall == [op |-> "none", symbol |-> "", price |-> None, time |-> 0,
           before |-> << >>, saved |-> FALSE, written |-> FALSE]

-----------------------------------------------------------------------------
(* The PriceHistory object used on its own *)

\* PriceHistory.__init__: self.history = self.load_history()
InitHistory ==
    /\ file \in LoadableFiles
    /\ history = load_history(file)
    /\ now = StartTime
    /\ pc = "api"
    /\ idx = 0
    /\ price = None
    /\ price_changes = [raised |-> FALSE, value |-> EmptyDict]
    /\ last_alert_time = EmptyDict
    /\ lastFired = EmptyDict
    /\ alerts = {}
    /\ lastCall = NoCall
    /\ TELEGRAM_ENABLED = FALSE

\* Time passes between two calls.
Tick ==
    /\ pc = "api"
    /\ \E t \in Instants : t > now /\ now' = t
    /\ UNCHANGED << history, file, last_alert_time, pc, idx, price,
                    price_changes, alerts, lastFired, lastCall,
                    TELEGRAM_ENABLED >>

\* add_price(symbol, price), the whole call
AddPrice(symbol, p) ==
    /\ pc = "api"
    /\ Len(Series(history, symbol)) < MaxLen
    /\ IF InvalidPrice(p)
       THEN /\ UNCHANGED << history, file >>
            /\ lastCall' = [op |-> "add_price", symbol |-> symbol, price |-> p,
                            time |-> now, before |-> Series(history, symbol),
                            saved |-> FALSE, written |-> FALSE]
       ELSE /\ history' = add_price(history, symbol, p[1], now)
            /\ \E ok \in BOOLEAN :
                  /\ file' \in SaveResult(history', file, ok)
                  /\ lastCall' = [op |-> "add_price", symbol |-> symbol,
                                  price |-> p, time |-> now,
                                  before |-> Series(history, symbol),
                                  saved |-> TRUE, written |-> ok]
    /\ UNCHANGED << last_alert_time, now, pc, idx, price, price_changes,
                    alerts, lastFired, TELEGRAM_ENABLED >>

NextHistory ==
    \/ Tick
    \/ \E symbol \in Keys, p \in PriceInputs : AddPrice(symbol, p)

SpecHistory == InitHistory /\ [][NextHistory]_vars

-----------------------------------------------------------------------------
(* PriceHistory: the state file written and read back *)

\* A PriceHistory whose file need not hold what is in memory, as after a
\* write that failed.
InitPersist ==
    /\ history \in LoadedHistories
    /\ file \in LoadableFiles
    /\ now = StartTime
    /\ pc = "persist"
    /\ idx = 0
    /\ price = None
    /\ price_changes = [raised |-> FALSE, value |-> EmptyDict]
    /\ last_alert_time = EmptyDict
    /\ lastFired = EmptyDict
    /\ alerts = {}
    /\ lastCall = NoCall
    /\ TELEGRAM_ENABLED = FALSE

\* save_history(), the whole call
SaveHistory ==
    /\ pc = "persist"
    /\ \E ok \in BOOLEAN :
          /\ file' \in SaveResult(history, file, ok)
          /\ lastCall' = [op |-> "save_history", symbol |-> "", price |-> None,
                          time |-> now, before |-> history,
                          saved |-> TRUE, written |-> ok]
    /\ UNCHANGED << history, last_alert_time, now, pc, idx, price,
                    price_changes, alerts, lastFired, TELEGRAM_ENABLED >>

\* load_history() after a save_history(): self.history = self.load_history()
\* of a PriceHistory constructed on the file.
LoadHistory ==
    /\ pc = "persist"
    /\ lastCall.op = "save_history"
    /\ history' = load_history(file)
    /\ lastCall' = [lastCall EXCEPT !.op = "load_history"]
    /\ UNCHANGED << file, last_alert_time, now, pc, idx, price, price_changes,
                    alerts, lastFired, TELEGRAM_ENABLED >>

NextPersist == SaveHistory \/ LoadHistory

SpecPersist == InitPersist /\ [][NextPersist]_vars

-----------------------------------------------------------------------------
(* get_price_changes on its own, over the series a history can hold *)

\* Sample times: two a second apart, one four minutes later, and for each
\* window the instant that puts the second at the window start.
ChangeOffsets == {0, 1, 1 + timedelta_minutes(4)}
                 \cup { 1 + timedelta_minutes(w) : w \in DOMAIN TIME_WINDOWS }
ChangePrices == { -5, 0, 100, 110 }
ChangeSamples ==
    { [timestamp |-> isoformat(StartTime + o), price |-> p] :
        o \in ChangeOffsets, p \in ChangePrices }
ChangeSeries == SeqsUpTo(ChangeSamples, MaxLen)

InitChanges ==
    /\ history \in { EmptyDict } \cup { (SYMBOLS[1] :> s) : s \in ChangeSeries }
    /\ file = json_dump(history)
    /\ now = StartTime
    /\ pc = "api"
    /\ idx = 0
    /\ price = None
    /\ price_changes = [raised |-> FALSE, value |-> EmptyDict]
    /\ last_alert_time = EmptyDict
    /\ lastFired = EmptyDict
    /\ alerts = {}
    /\ lastCall = NoCall
    /\ TELEGRAM_ENABLED = FALSE

\* get_price_changes(symbol, Config.TIME_WINDOWS), the whole call
GetPriceChanges(symbol) ==
    /\ pc = "api"
    /\ price_changes' = get_price_changes(history, symbol, TIME_WINDOWS)
    /\ lastCall' = [op |-> "get_price_changes", symbol |-> symbol,
                    price |-> None, time |-> now,
                    before |-> Series(history, symbol), saved |-> FALSE,
                    written |-> FALSE]
    /\ UNCHANGED << history, file, last_alert_time, now, pc, idx, price,
                    alerts, lastFired, TELEGRAM_ENABLED >>

NextChanges == GetPriceChanges(SYMBOLS[1])

SpecChanges == InitChanges /\ [][NextChanges]_vars

-----------------------------------------------------------------------------
(* BinanceMonitor.monitor_prices: the polling loop *)

\* What get_price returns: None on a failure or a price that is not
\* positive, else the price.
FetchResults == { None, Some(100), Some(103), Some(1133) }

\* The state file at start: none, the file of an earlier run, or a file
\* that parses as JSON and holds an entry without an ISO timestamp.
MonitorFiles ==
    { MissingFile,
      json_dump((SYMBOLS[1] :>
                   << [timestamp |-> isoformat(StartTime - CHECK_INTERVAL),
                       price |-> 100] >>)),
      json_dump((SYMBOLS[2] :> << [timestamp |-> None, price |-> 100] >>)) }

\* config.TIME_WINDOWS as monitor_prices finds it: a dict, or the list of
\* config.py, which has no items().
TimeWindowsShapes == { "dict", "list" }

\* The positions of a process that has ended: sys.exit(0), sys.exit(1), and
\* a KeyboardInterrupt that nothing caught.
Exited == { "exit0", "exit1", "killed" }

\* BinanceMonitor.__init__, at the start of monitor_prices.
InitMonitor ==
    /\ file \in MonitorFiles
    /\ history = load_history(file)
    /\ now = StartTime
    /\ pc = "start"
    /\ idx = 1
    /\ price = None
    /\ price_changes = [raised |-> FALSE, value |-> EmptyDict]
    /\ last_alert_time = EmptyDict
    /\ lastFired = EmptyDict
    /\ alerts = {}
    /\ lastCall = NoCall
    /\ TELEGRAM_ENABLED \in BOOLEAN

\* monitor_prices up to "while True": TIME_WINDOWS.items() raises on a list,
\* and main() catches the exception and calls sys.exit(1).
Startup ==
    /\ pc = "start"
    /\ \E shape \in TimeWindowsShapes :
          pc' = IF shape = "list" THEN "exit1" ELSE "fetch"
    /\ UNCHANGED << history, file, last_alert_time, now, idx, price,
                    price_changes, alerts, lastFired, lastCall,
                    TELEGRAM_ENABLED >>

\* The end of the loop body for one symbol: the next symbol, or the sleep.
NextSymbol ==
    IF idx < Len(SYMBOLS)
    THEN idx' = idx + 1 /\ pc' = "fetch"
    ELSE idx' = idx /\ pc' = "sleep"

\* Time passes before the clock is read, in add_price or check_for_alerts.
Elapse ==
    /\ pc \in { "add", "check" }
    /\ \E t \in MonitorInstants : t > now /\ now' = t
    /\ UNCHANGED << history, file, last_alert_time, pc, idx, price,
                    price_changes, alerts, lastFired, lastCall,
                    TELEGRAM_ENABLED >>

Fetch_BreakOnFailure ==
    /\ pc = "fetch"
    /\ \E p \in FetchResults :
          /\ price' = p
          /\ idx' = idx
          /\ pc' = IF p = None THEN "sleep" ELSE "add"
    /\ UNCHANGED << history, file, last_alert_time, now, price_changes,
                    alerts, lastFired, lastCall, TELEGRAM_ENABLED >>

\* price = self.get_price(...); "if price is None: continue"
Fetch ==
    /\ pc = "fetch"
    /\ \E p \in FetchResults :
          /\ price' = p
          /\ IF p = None THEN NextSymbol ELSE idx' = idx /\ pc' = "add"
    /\ UNCHANGED << history, file, last_alert_time, now, price_changes,
                    alerts, lastFired, lastCall, TELEGRAM_ENABLED >>

\* self.price_history.add_price(symbol, price): when cleanup_old_data raises,
\* the sample is appended, nothing is trimmed or saved, and the exception
\* leaves the cycle.
MonitorAdd ==
    /\ pc = "add"
    /\ IF InvalidPrice(price)
       THEN UNCHANGED << history, file >> /\ pc' = "changes"
       ELSE LET h2 == appended(history, SYMBOLS[idx], price[1], now)
            IN  IF cleanup_raises(h2, SYMBOLS[idx])
                THEN history' = h2 /\ file' = file /\ pc' = "backoff"
                ELSE /\ history' = add_price(history, SYMBOLS[idx], price[1], now)
                     /\ \E ok \in BOOLEAN :
                           /\ file' \in SaveResult(history', file, ok)
                           /\ pc' = IF save_raises(ok) THEN "backoff"
                                    ELSE "changes"
    /\ UNCHANGED << last_alert_time, now, idx, price, price_changes, alerts,
                    lastFired, lastCall, TELEGRAM_ENABLED >>

\* price_changes = self.price_history.get_price_changes(symbol, TIME_WINDOWS)
MonitorChanges ==
    /\ pc = "changes"
    /\ price_changes' = get_price_changes(history, SYMBOLS[idx], TIME_WINDOWS)
    /\ pc' = IF price_changes'.raised THEN "backoff" ELSE "check"
    /\ UNCHANGED << history, file, last_alert_time, now, idx, price, alerts,
                    lastFired, lastCall, TELEGRAM_ENABLED >>

\* self.check_for_alerts(symbol, price_changes), the whole call
CheckForAlerts ==
    /\ pc = "check"
    /\ LET symbol == SYMBOLS[idx]
           fire == { w \in DOMAIN price_changes.value :
                       ShouldAlert(symbol, w, price_changes.value[w],
                                   last_alert_time, now) }
       IN  \E outcome \in [fire -> SendOutcomes(TELEGRAM_ENABLED)] :
             /\ alerts' = { [symbol |-> symbol, window |-> w, time |-> now,
                             last_alert |->
                                 last_alert(last_alert_time,
                                            alert_key(symbol, w)),
                             outcome |-> outcome[w]] : w \in fire }
             /\ lastFired' =
                   Stamp(lastFired, { alert_key(symbol, w) : w \in fire }, now)
             /\ last_alert_time' =
                   Stamp(last_alert_time,
                         { alert_key(symbol, w) :
                             w \in { v \in fire : RecordsCooldown(outcome[v]) } },
                         now)
    /\ NextSymbol
    /\ UNCHANGED << history, file, now, price, price_changes, lastCall,
                    TELEGRAM_ENABLED >>

\* time.sleep(self.config.CHECK_INTERVAL), then the next cycle
Sleep ==
    /\ pc = "sleep"
    /\ \E t \in MonitorInstants : t >= now + CHECK_INTERVAL /\ now' = t
    /\ pc' = "fetch"
    /\ idx' = 1
    /\ UNCHANGED << history, file, last_alert_time, price, price_changes,
                    alerts, lastFired, lastCall, TELEGRAM_ENABLED >>

Backoff_Exit ==
    /\ pc = "backoff"
    /\ pc' = "exit1"
    /\ UNCHANGED << history, file, last_alert_time, now, idx, price,
                    price_changes, alerts, lastFired, lastCall,
                    TELEGRAM_ENABLED >>

\* "except Exception as e": time.sleep(30), then "while True" starts the
\* next cycle at the first symbol.
Backoff ==
    /\ pc = "backoff"
    /\ \E t \in MonitorInstants : t >= now + ERROR_BACKOFF /\ now' = t
    /\ pc' = "fetch"
    /\ idx' = 1
    /\ UNCHANGED << history, file, last_alert_time, price, price_changes,
                    alerts, lastFired, lastCall, TELEGRAM_ENABLED >>

\* The user interrupts the process.  Inside the try of the loop
\* "except KeyboardInterrupt" calls sys.exit(0); before the loop, and in the
\* sleep of the except branch, nothing catches the KeyboardInterrupt.  The
\* objects of the process end with it; the file and the clock stay.
Interrupt ==
    /\ pc \notin Exited
    /\ pc' = IF pc \in { "start", "backoff" } THEN "killed" ELSE "exit0"
    /\ history' = EmptyDict
    /\ last_alert_time' = EmptyDict
    /\ lastFired' = EmptyDict
    /\ alerts' = {}
    /\ idx' = 1
    /\ price' = None
    /\ price_changes' = [raised |-> FALSE, value |-> EmptyDict]
    /\ UNCHANGED << file, now, lastCall, TELEGRAM_ENABLED >>

\* The steps of one pass of the loop, and of the except branch.
LoopStep ==
    \/ Fetch
    \/ MonitorAdd
    \/ MonitorChanges
    \/ CheckForAlerts
    \/ Sleep
    \/ Backoff

NextMonitor ==
    \/ Startup
    \/ Elapse
    \/ LoopStep
    \/ Interrupt

SpecMonitor == InitMonitor /\ [][NextMonitor]_vars

\* The monitor started with notifications off on the file that holds an
\* entry without an ISO timestamp: cycles end in the sleep and in the except
\* branch.
InitMonitorLive ==
    /\ InitMonitor
    /\ \E k \in DOMAIN history : cleanup_raises(history, k)
    /\ ~TELEGRAM_ENABLED

\* The loop runs on: a step of it that can be taken is taken.  The clock and
\* the user are not obliged to anything.
SpecMonitorLive ==
    InitMonitorLive /\ [][NextMonitor]_vars /\ WF_vars(Startup \/ LoopStep)

-----------------------------------------------------------------------------
(* Properties of PriceHistory.add_price *)

Retention == timedelta_hours(MAX_HISTORY_HOURS)
TimeOf(entry) == fromisoformat(entry.timestamp)

\* The last call was an add_price whose price was accepted.
AddAccepted ==
    /\ lastCall.op = "add_price"
    /\ lastCall.price # None
    /\ lastCall.price[1] > 0

\* The last call was an add_price whose price was rejected.
AddRejected ==
    /\ lastCall.op = "add_price"
    /\ (lastCall.price = None \/ lastCall.price[1] <= 0)

\* C1: after a successful add_price(symbol, price) made at time t, every
\* sample kept in the series of that symbol has a timestamp not older than
\* t minus max_hours.
C1_Retention ==
    AddAccepted =>
        \A i \in 1..Len(Series(history, lastCall.symbol)) :
            TimeOf(history[lastCall.symbol][i]) >= lastCall.time - Retention

\* A successful add_price after which the series is no longer than before:
\* the trim removed a sample.
C1_Witness ==
    /\ AddAccepted
    /\ Len(lastCall.before) >= 1
    /\ Len(Series(history, lastCall.symbol)) <= Len(lastCall.before)

\* C8: an add_price whose price is missing or not positive leaves the
\* history in memory as it was, creates no series, and does not write the
\* file.
C8_RejectedIsNoOp ==
    [][ AddRejected' =>
            /\ history' = history
            /\ file' = file
            /\ ~lastCall'.saved ]_vars

\* A rejected add_price for a symbol the history has no series for.
C8_Witness ==
    /\ AddRejected
    /\ lastCall.symbol \notin DOMAIN history
    /\ lastCall.price = Some(0)

\* C9, as claimed: a successful add_price at time t appends the sample and
\* removes exactly the samples with timestamp < t - max_hours, so a sample
\* whose timestamp equals t - max_hours stays.
C9_TrimKeepsCutoff ==
    [][ (AddAccepted' /\ history' # history) =>
            LET symbol == lastCall'.symbol
                sample == [timestamp |-> isoformat(now),
                           price |-> lastCall'.price[1]]
                fresh(entry) == TimeOf(entry) >= now - Retention
            IN  history'[symbol] =
                    SelectSeq(Append(Series(history, symbol), sample), fresh)
      ]_vars

-----------------------------------------------------------------------------
(* Properties of PriceHistory.get_price_changes *)

\* get_price_changes was called on a series that is not empty.
Computed ==
    /\ lastCall.op = "get_price_changes"
    /\ lastCall.before # << >>

TheSeries == lastCall.before
LatestTime == TimeOf(TheSeries[Len(TheSeries)])
LatestPrice == TheSeries[Len(TheSeries)].price
WindowStart(w) == LatestTime - timedelta_minutes(w)

\* The positions of the samples at or after the start of window w.
AtOrAfterStart(w) ==
    { i \in 1..Len(TheSeries) : TimeOf(TheSeries[i]) >= WindowStart(w) }
Min(S) == CHOOSE i \in S : \A j \in S : i <= j

\* The result for window w is "insufficient data".
Insufficient(w) ==
    /\ ~price_changes.raised
    /\ w \in DOMAIN price_changes.value
    /\ price_changes.value[w].start_price = None
    /\ price_changes.value[w].change_percent = 0
    /\ price_changes.value[w].current_price = LatestPrice

\* C3, as claimed: on a series in which no sample is older than the start of
\* window w, the result for w has start_price none and change_percent 0.0.
C3_NoOlderSampleGivesNone ==
    Computed =>
        \A w \in DOMAIN TIME_WINDOWS :
            (\A i \in 1..Len(TheSeries) : TimeOf(TheSeries[i]) >= WindowStart(w))
                => Insufficient(w)

\* C3, amended: on a series that is not empty and in which no sample at or
\* after the start of window w has a positive price, the result for w has
\* start_price none, change_percent 0.0 and the latest price as
\* current_price.
C3_NoPositiveSampleGivesNone ==
    Computed =>
        \A w \in DOMAIN TIME_WINDOWS :
            (\A i \in AtOrAfterStart(w) : TheSeries[i].price <= 0)
                => Insufficient(w)

\* A series with a positive sample before the start of the 5-minute window
\* and none in it, for which the result is "insufficient data".
C3_Witness ==
    /\ Computed
    /\ \A i \in AtOrAfterStart(5) : TheSeries[i].price <= 0
    /\ \E i \in 1..Len(TheSeries) : TheSeries[i].price > 0
    /\ Insufficient(5)

\* C4: on a series of positive prices, for every configured window the
\* start_price is the price of the first sample in series order whose
\* timestamp is >= the latest timestamp minus the window, current_price is
\* the price of the last sample, and change_percent is
\* ((current - start) / start) * 100 to the nearest hundredth.
C4_StartAndChange ==
    (Computed /\ \A i \in 1..Len(TheSeries) : TheSeries[i].price > 0) =>
        /\ ~price_changes.raised
        /\ DOMAIN price_changes.value = DOMAIN TIME_WINDOWS
        /\ \A w \in DOMAIN TIME_WINDOWS :
              LET start  == TheSeries[Min(AtOrAfterStart(w))].price
                  result == price_changes.value[w]
              IN  /\ result.start_price = Some(start)
                  /\ result.current_price = LatestPrice
                  /\ 2 * Abs(result.change_percent * start
                               - (LatestPrice - start) * 10000) <= start

\* The samples 100 and 110 four minutes apart: start 100, current 110,
\* change 10.0 % for the 5-minute window.
C4_Witness ==
    /\ Computed
    /\ Len(TheSeries) = 2
    /\ TheSeries[1].price = 100 /\ TheSeries[2].price = 110
    /\ TimeOf(TheSeries[2]) - TimeOf(TheSeries[1]) = timedelta_minutes(4)
    /\ ~price_changes.raised
    /\ price_changes.value[5] =
          [start_price |-> Some(100), current_price |-> 110,
           change_percent |-> 1000]

\* C6: no sample with a price of 0 or below is reported as start_price, and
\* the division by the start price is never by a value that is not positive
\* (the divisor is the reported start price; a zero divisor raises).
C6_StartPricePositive ==
    (lastCall.op = "get_price_changes") =>
        /\ ~price_changes.raised
        /\ \A w \in DOMAIN price_changes.value :
              \/ price_changes.value[w].start_price = None
              \/ price_changes.value[w].start_price[1] > 0

\* The first sample at or after the start of the 15-minute window has a
\* price that is not positive, and a start price is reported.
C6_Witness ==
    /\ Computed
    /\ TheSeries[Min(AtOrAfterStart(15))].price < 0
    /\ ~price_changes.raised
    /\ price_changes.value[15].start_price # None

\* The first sample at or after the start of window w has price exactly 0.
StartSampleIsZero(w) == TheSeries[Min(AtOrAfterStart(w))].price = 0

\* C7, as claimed: when the start sample of a window has a price of exactly
\* 0 the window is reported as "insufficient data" and nothing is raised.
C7_ZeroStartGivesNone ==
    Computed =>
        \A w \in DOMAIN TIME_WINDOWS : StartSampleIsZero(w) => Insufficient(w)

\* C7, amended: when the start sample of a window has a price of exactly 0,
\* nothing is raised and the sample is passed over: the start is the next
\* sample in series order at or after the window start with a positive
\* price, and the window is "insufficient data" only when there is none.
C7_ZeroStartIsSkipped ==
    Computed =>
        \A w \in DOMAIN TIME_WINDOWS :
            StartSampleIsZero(w) =>
                LET positive == { i \in AtOrAfterStart(w) : TheSeries[i].price > 0 }
                IN  /\ ~price_changes.raised
                    /\ IF positive = {}
                       THEN Insufficient(w)
                       ELSE price_changes.value[w].start_price =
                                Some(TheSeries[Min(positive)].price)

\* The start sample of the 15-minute window has price 0 and a later sample
\* is reported as the start.
C7_Witness ==
    /\ Computed
    /\ StartSampleIsZero(15)
    /\ ~price_changes.raised
    /\ price_changes.value[15].start_price # None

-----------------------------------------------------------------------------
(* Properties of BinanceMonitor.check_for_alerts in the polling loop *)

\* This step is the call of check_for_alerts for SYMBOLS[idx].
CheckStep == pc = "check" /\ pc' \in { "fetch", "sleep" }

\* The call of this step sends an alert for window w.
Fires(w) ==
    \E a \in alerts' : a.symbol = SYMBOLS[idx] /\ a.window = w

\* The change of window w is at or above the threshold of the window and
\* at or below the ceiling.
Exceeded(change_data, w) ==
    /\ Abs(change_data.change_percent) >= 100 * TIME_WINDOWS[w]
    /\ Abs(change_data.change_percent) <= 100 * SANITY_CEILING

\* C2: after an alert for a (symbol, window) pair at time t, no call of
\* check_for_alerts made less than the cooldown after t alerts for the pair
\* again, although the threshold is exceeded; a call made more than the
\* cooldown after t with the threshold exceeded alerts again.
C2_OncePerCooldown ==
    [][ CheckStep =>
          \A w \in DOMAIN price_changes.value :
              LET key == alert_key(SYMBOLS[idx], w)
              IN  key \in DOMAIN lastFired =>
                    /\ now - lastFired[key] < alert_cooldown => ~Fires(w)
                    /\ ( /\ now - lastFired[key] > alert_cooldown
                         /\ Exceeded(price_changes.value[w], w) ) => Fires(w)
      ]_vars

\* The cycle has ended with the check of the last symbol: the 15-minute
\* threshold is exceeded, the pair alerted within the last cooldown, and no
\* alert was sent now.
C2_Witness ==
    /\ pc = "sleep"
    /\ price # None
    /\ Exceeded(price_changes.value[15], 15)
    /\ alert_key(SYMBOLS[idx], 15) \in DOMAIN lastFired
    /\ now - lastFired[alert_key(SYMBOLS[idx], 15)] \in 1..alert_cooldown
    /\ \A a \in alerts : a.window # 15

\* C5: for a result with a start price, check_for_alerts alerts exactly when
\* the absolute change is >= the threshold of the window, is <= 1000, and
\* the pair never alerted or alerted more than the cooldown ago; when it
\* does not alert, the cooldown time of the pair is left as it was.
C5_AlertCondition ==
    [][ CheckStep =>
          \A w \in DOMAIN price_changes.value :
              LET key == alert_key(SYMBOLS[idx], w)
                  change_data == price_changes.value[w]
                  elapsed == \/ key \notin DOMAIN lastFired
                             \/ now - lastFired[key] > alert_cooldown
              IN  change_data.start_price # None =>
                    /\ Fires(w) <=> (Exceeded(change_data, w) /\ elapsed)
                    /\ ~Fires(w) =>
                          /\ (key \in DOMAIN last_alert_time')
                                <=> (key \in DOMAIN last_alert_time)
                          /\ key \in DOMAIN last_alert_time =>
                                last_alert_time'[key] = last_alert_time[key]
      ]_vars

\* An alert was sent for a change of exactly the ceiling, 1000 %.
C5_Witness ==
    /\ pc \in { "fetch", "sleep" }
    /\ \E a \in alerts :
          /\ a.window \in DOMAIN price_changes.value
          /\ Abs(price_changes.value[a.window].change_percent)
                = 100 * SANITY_CEILING

\* C10: for every alert check_for_alerts decides on, last_alert_time of the
\* pair is the time of the decision, whether the notification was
\* delivered, failed, or was not sent because notifications are disabled.
C10_CooldownOnAttempt ==
    \A a \in alerts :
        /\ a.outcome \in { "delivered", "failed", "disabled" }
        /\ alert_key(a.symbol, a.window) \in DOMAIN last_alert_time
        /\ last_alert_time[alert_key(a.symbol, a.window)] = a.time

\* An alert whose notification failed at the sink.
C10_Witness ==
    \E a \in alerts :
        /\ a.outcome = "failed"
        /\ last_alert_time[alert_key(a.symbol, a.window)] = a.time

-----------------------------------------------------------------------------
(* Further properties of PriceHistory.get_price_changes *)

\* C19: for a series that is not empty and every configured window w, the
\* result has start_price none exactly when every sample whose timestamp is
\* >= the latest timestamp minus w minutes has a price that is not positive;
\* nothing is raised; so a series of positive prices only, as add_price
\* builds it, gets a start price for every window.
C19_NoneIffNoPositiveInWindow ==
    Computed =>
        /\ ~price_changes.raised
        /\ DOMAIN price_changes.value = DOMAIN TIME_WINDOWS
        /\ \A w \in DOMAIN TIME_WINDOWS :
              /\ (price_changes.value[w].start_price = None)
                    <=> (\A i \in AtOrAfterStart(w) : TheSeries[i].price <= 0)
              /\ (\A i \in 1..Len(TheSeries) : TheSeries[i].price > 0)
                    => price_changes.value[w].start_price # None

\* The first sample of the 5-minute window has a price that is not positive,
\* the latest sample has a positive one and is reported as the start.
C19_Witness ==
    /\ Computed
    /\ Len(TheSeries) = 2
    /\ AtOrAfterStart(5) = { 1, 2 }
    /\ TheSeries[1].price <= 0
    /\ LatestPrice > 0
    /\ ~price_changes.raised
    /\ price_changes.value[5].start_price = Some(LatestPrice)

-----------------------------------------------------------------------------
(* Further properties of PriceHistory.add_price *)

\* The timestamps of series s are in non-decreasing order.
TimeOrdered(s) ==
    \A i \in 1..Len(s), j \in 1..Len(s) :
        i < j => TimeOf(s[i]) <= TimeOf(s[j])

\* Every series of h is in time order and holds no timestamp after t.
OrderedUpTo(h, t) ==
    \A k \in DOMAIN h :
        /\ TimeOrdered(h[k])
        /\ \A i \in 1..Len(h[k]) : TimeOf(h[k][i]) <= t

\* C16: when every series is in non-decreasing time order with no timestamp
\* after the clock (the store was loaded empty, or time-ordered from appends
\* made at earlier clock times), every series is so after any step, an
\* append and trim included.
C16_SeriesTimeOrdered ==
    [][ OrderedUpTo(history, now) => OrderedUpTo(history', now') ]_vars

\* An accepted add_price made a series of two samples, the appended one
\* strictly later than the one before it.
C16_Witness ==
    /\ AddAccepted
    /\ Len(history[lastCall.symbol]) = 2
    /\ TimeOf(history[lastCall.symbol][1]) < TimeOf(history[lastCall.symbol][2])
    /\ TimeOf(history[lastCall.symbol][2]) = lastCall.time

\* C20: a step that changes the history is an accepted add_price(symbol,
\* price), and it changes the series of symbol only: every other key stays
\* a key and keeps its series, untrimmed, and no key but symbol is added.
C20_OnlyOwnSeriesChanges ==
    [][ history' # history =>
          /\ lastCall'.op = "add_price"
          /\ ~InvalidPrice(lastCall'.price)
          /\ DOMAIN history' = DOMAIN history \cup { lastCall'.symbol }
          /\ \A k \in DOMAIN history \ { lastCall'.symbol } :
                history'[k] = history[k]
      ]_vars

\* After an accepted add_price for one symbol, another key still holds a
\* sample that is a retention horizon or more before the time of the call.
C20_Witness ==
    /\ AddAccepted
    /\ \E k \in DOMAIN history \ { lastCall.symbol } :
          \E i \in 1..Len(history[k]) :
              TimeOf(history[k][i]) <= lastCall.time - Retention

-----------------------------------------------------------------------------
(* Properties of the state file *)

\* File f holds an object whose members are the keys and series of h.
FileHolds(f, h) ==
    /\ f.kind = "json"
    /\ { m[1] : m \in f.members } = DOMAIN h
    /\ \A m \in f.members : h[m[1]] = m[2]

C14_FileTracksMemory ==
    /\ lastCall = NoCall =>
          IF file.kind = "json" THEN FileHolds(file, history)
          ELSE history = EmptyDict
    /\ (AddAccepted /\ lastCall.written) =>
          /\ FileHolds(file, history)
          /\ LET s == history[lastCall.symbol]
             IN  /\ s # << >>
                 /\ s[Len(s)] = [timestamp |-> isoformat(lastCall.time),
                                 price |-> lastCall.price[1]]

\* An accepted add_price whose write succeeded trimmed the sample that was
\* in the series before: the file holds the new sample only.
C14_Witness ==
    /\ AddAccepted
    /\ lastCall.written
    /\ lastCall.before # << >>
    /\ Len(history[lastCall.symbol]) = 1
    /\ FileHolds(file, history)

-----------------------------------------------------------------------------
(* Properties of the polling loop *)

\* The process is running after this step.
Running == pc' \notin Exited

\* The last sample of the series of SYMBOLS[idx] in history h.
LastSample(h) == Series(h, SYMBOLS[idx])[Len(Series(h, SYMBOLS[idx]))]

\* C11: when get_price returns None for a symbol, the step appends no
\* sample, writes no file, computes no change and decides no alert, and the
\* loop goes on to fetch the next symbol of the cycle, or to the sleep after
\* the last one.
C11_FetchFailureSkipsSymbol ==
    [][ (pc = "fetch" /\ Running /\ price' = None) =>
          /\ UNCHANGED << history, file, price_changes, alerts,
                          last_alert_time, now >>
          /\ IF idx < Len(SYMBOLS)
             THEN pc' = "fetch" /\ idx' = idx + 1
             ELSE pc' = "sleep" /\ idx' = idx
      ]_vars

\* A cycle has ended in which the fetch for the first symbol failed, as in
\* every cycle before, and the second symbol got its sample.
C11_Witness ==
    /\ pc = "sleep"
    /\ price # None
    /\ SYMBOLS[1] \notin DOMAIN history
    /\ SYMBOLS[2] \in DOMAIN history
    /\ TimeOf(LastSample(history)) = now

\* The last instant of the model's clock.
Horizon == CHOOSE t \in MonitorInstants : \A u \in MonitorInstants : u <= t

\* A new cycle is at its first symbol, or the user has ended the process.
CycleStartedOrInterrupted ==
    \/ pc = "fetch" /\ idx = 1
    \/ pc \in { "exit0", "killed" }

\* C12: the process ends with exit status 1 only from before the loop; an
\* error in a cycle leads to the except branch, which after at least 30 s
\* starts a new cycle at the first symbol; every cycle that ends, in the
\* sleep or in the except branch, is followed by another cycle unless the
\* user interrupts (up to the last instant of the clock).
C12_ErrorsNotFatal ==
    /\ [][ /\ (pc' = "exit1" /\ pc # "exit1") => pc = "start"
           /\ (pc = "start" /\ pc' # "start") =>
                 \/ pc' = "fetch" /\ idx' = 1
                 \/ pc' \in { "exit1", "killed" }
           /\ (pc = "add" /\ Running /\ price # None
                 /\ cleanup_raises(history, SYMBOLS[idx])) => pc' \in { "add", "backoff" }
           /\ (pc = "backoff" /\ Running /\ pc' # "backoff") =>
                 /\ pc' = "fetch"
                 /\ idx' = 1
                 /\ now' >= now + ERROR_BACKOFF
         ]_vars
    /\ (pc = "backoff" /\ now + ERROR_BACKOFF <= Horizon)
          ~> CycleStartedOrInterrupted
    /\ (pc = "sleep" /\ now + CHECK_INTERVAL <= Horizon)
          ~> CycleStartedOrInterrupted
    /\ (pc \in { "fetch", "add", "changes", "check" })
          ~> (pc \in { "sleep", "backoff" } \cup Exited)

\* Two cycles were left by an error at the second symbol, each having
\* appended its sample, and a third cycle is at its first symbol.
C12_Witness ==
    /\ pc = "fetch"
    /\ idx = 1
    /\ cleanup_raises(history, SYMBOLS[2])
    /\ Len(history[SYMBOLS[2]]) >= 3

\* C15: when the write of the state file fails in add_price, nothing is
\* raised: the call returns with the new sample last in the series in
\* memory and the old samples trimmed, the change computation of the same
\* pass follows and reports the new price as current_price, and the alert
\* check follows and decides by the threshold and the cooldown as always.
C15_WriteFailureAbsorbed ==
    [][ LET symbol == SYMBOLS[idx]
            unwritten(f, h) == f # json_dump(h)
        IN  /\ ( /\ pc = "add" /\ pc' # "add" /\ Running
                 /\ price # None
                 /\ ~cleanup_raises(history', symbol)
                 /\ unwritten(file', history') ) =>
                   /\ pc' = "changes"
                   /\ file' \in { file, CorruptFile }
                   /\ Series(history', symbol) # << >>
                   /\ LastSample(history') =
                         [timestamp |-> isoformat(now), price |-> price[1]]
                   /\ \A i \in 1..Len(history'[symbol]) :
                         TimeOf(history'[symbol][i]) >= now - Retention
            /\ (pc = "changes" /\ Running /\ unwritten(file, history)) =>
                   /\ pc' = "check"
                   /\ ~price_changes'.raised
                   /\ DOMAIN price_changes'.value = DOMAIN TIME_WINDOWS
                   /\ \A w \in DOMAIN TIME_WINDOWS :
                         price_changes'.value[w].current_price = price[1]
            /\ (CheckStep /\ Running /\ unwritten(file, history)) =>
                   /\ pc' \in { "fetch", "sleep" }
                   /\ \A w \in DOMAIN price_changes.value :
                         Fires(w) <=>
                            /\ price_changes.value[w].start_price # None
                            /\ Exceeded(price_changes.value[w], w)
                            /\ now - last_alert(last_alert_time,
                                                alert_key(symbol, w))
                                  > alert_cooldown
      ]_vars

\* An alert was decided in a pass whose write of the state file failed: the
\* file does not hold the sample the alert was computed from.
C15_Witness ==
    /\ pc \in { "fetch", "sleep" }
    /\ price # None
    /\ alerts # {}
    /\ file # json_dump(history)
    /\ \A a \in alerts :
          /\ a.time = now
          /\ price_changes.value[a.window].current_price = price[1]

-----------------------------------------------------------------------------
(* Further properties of BinanceMonitor.check_for_alerts in the loop *)

\* Whether last_alert_time lat has a time for (symbol, window), and which.
CooldownOf(lat, symbol, window) ==
    IF alert_key(symbol, window) \in DOMAIN lat
    THEN Some(lat[alert_key(symbol, window)])
    ELSE None

\* C17: while the process runs, the cooldown time of a (symbol, window) pair
\* changes only in the call of check_for_alerts that alerts for that very
\* pair; an alert for one pair leaves the time of every other symbol and of
\* every other window as it was.
C17_CooldownPerPair ==
    [][ Running =>
          \A symbol \in Keys, w \in DOMAIN TIME_WINDOWS :
              \/ CheckStep /\ symbol = SYMBOLS[idx] /\ Fires(w)
              \/ CooldownOf(last_alert_time', symbol, w)
                    = CooldownOf(last_alert_time, symbol, w)
      ]_vars

\* An alert was sent for one window of a symbol while the other window of
\* the symbol, and a pair of the other symbol, keep earlier cooldown times.
C17_Witness ==
    /\ pc \in { "fetch", "sleep" }
    /\ \E a \in alerts :
          /\ a.time = now
          /\ \E w \in DOMAIN TIME_WINDOWS \ { a.window } :
                /\ CooldownOf(last_alert_time, a.symbol, w) # None
                /\ CooldownOf(last_alert_time, a.symbol, w)[1] < now
          /\ \E symbol \in Keys \ { a.symbol }, w \in DOMAIN TIME_WINDOWS :
                /\ CooldownOf(last_alert_time, symbol, w) # None
                /\ CooldownOf(last_alert_time, symbol, w)[1] < now

\* C18: add_price is called after a fetch that returned a price, the change
\* computation after add_price, the alert check after the change
\* computation, all for the same symbol and price; after add_price the
\* series is not empty and its last sample is the price fetched; the
\* current_price of every window result, and of every alert decided, is the
\* price fetched in this pass.
C18_AlertsUseFetchedPrice ==
    [][ Running =>
          /\ (pc' = "add" /\ pc # "add") => pc = "fetch" /\ price' # None
          /\ (pc' = "changes" /\ pc # "changes") =>
                /\ pc = "add"
                /\ price' = price /\ idx' = idx
                /\ Series(history', SYMBOLS[idx]) # << >>
                /\ LastSample(history') =
                      [timestamp |-> isoformat(now), price |-> price[1]]
          /\ (pc' = "check" /\ pc # "check") =>
                /\ pc = "changes"
                /\ price' = price /\ idx' = idx /\ history' = history
                /\ DOMAIN price_changes'.value = DOMAIN TIME_WINDOWS
                /\ \A w \in DOMAIN TIME_WINDOWS :
                      price_changes'.value[w].current_price = price[1]
          /\ CheckStep =>
                /\ LastSample(history).price = price[1]
                /\ \A w \in DOMAIN price_changes.value :
                      price_changes.value[w].current_price = price[1]
                /\ \A a \in alerts' : a.symbol = SYMBOLS[idx]
      ]_vars

\* An alert was decided on a change from an earlier, different price to the
\* price fetched in this pass.
C18_Witness ==
    /\ pc \in { "fetch", "sleep" }
    /\ price # None
    /\ \E a \in alerts :
          /\ a.time = now
          /\ price_changes.value[a.window].current_price = price[1]
          /\ price_changes.value[a.window].start_price # Some(price[1])

====
